---- MODULE Spec2Model ----
(***************************************************************************)
(* Model of pifacedigitalio.py: the SPI register-access layer of the       *)
(* PiFace Digital driver (opcode codec, 3-byte transfers, read-modify-     *)
(* write pin logic, board bring-up, handle lifecycle, pin-item setters).   *)
(***************************************************************************)
EXTENDS Integers, Sequences, FiniteSets, TLC

(* ------------------------------------------------------------------ *)
(* Program constants (pifacedigitalio.py lines 37-55)                  *)
(* ------------------------------------------------------------------ *)
WRITE_CMD == 0
READ_CMD == 1
IODIRA == 0
IODIRB == 1
IOCON == 10
GPIOA == 18
GPIOB == 19
GPPUA == 12
GPPUB == 13
OUTPUT_PORT == GPIOA
INPUT_PORT == GPIOB
INPUT_PULLUP == GPPUB
\* spidev_fd = None
None == -1
\* range(8) of the bring-up loop
NumBoards == 8
Boards == 0 .. (NumBoards - 1)
Ports == {IODIRA, IODIRB, IOCON, GPIOA, GPIOB, GPPUA, GPPUB}
Bytes == 0 .. 255

(* ------------------------------------------------------------------ *)
(* Bounds of the model                                                  *)
(* ------------------------------------------------------------------ *)
\* number of API calls in one behaviour of the lifecycle specification
MaxOps == 3
\* highest file descriptor the process may hold (descriptor-table limit)
MaxFd == 5
\* number of concurrent callers in the race specification
NumThreads == 2

\* descriptors 0,1,2 are the standard streams
FirstFd == 3
Fds == FirstFd .. MaxFd
Threads == 1 .. NumThreads

(* inputs of the calls *)
BoardInputs == {0, 7}
PinInputs == {-1, 0, 3, 8}
ValueInputs == {0, 1, 2}
DataInputs == {0, 165, 256}
RawInputs == {255, 254}
RacePins == {0, 1, 7}
RaceBoards == {0, 1}
RaceBytes == {90, 255}
NoArg == -99
NoRet == -1

(* ------------------------------------------------------------------ *)
(* Python integer operators.  An int is handled as the set of the       *)
(* positions of its one bits; every operand of the program's bitwise    *)
(* operators is below 2^8 (register bytes, 1 << pin with pin in 0..7,   *)
(* board_num << 1 with board_num in 0..7, the constants 0xE, 1, 0xff).  *)
(* ------------------------------------------------------------------ *)
BitsOf(a) == {i \in 0 .. 7 : (a \div (2 ^ i)) % 2 = 1}

FromBits(S) ==
      (IF 0 \in S THEN 1 ELSE 0) + (IF 1 \in S THEN 2 ELSE 0)
    + (IF 2 \in S THEN 4 ELSE 0) + (IF 3 \in S THEN 8 ELSE 0)
    + (IF 4 \in S THEN 16 ELSE 0) + (IF 5 \in S THEN 32 ELSE 0)
    + (IF 6 \in S THEN 64 ELSE 0) + (IF 7 \in S THEN 128 ELSE 0)

\* a & b
BitAnd(a, b) == FromBits(BitsOf(a) \cap BitsOf(b))

\* a | b
BitOr(a, b) == FromBits(BitsOf(a) \cup BitsOf(b))

\* a ^ b
BitXor(a, b) == FromBits((BitsOf(a) \ BitsOf(b)) \cup (BitsOf(b) \ BitsOf(a)))

\* a & ~m (Python's ~m is -m-1: every bit of m flipped, with infinitely
\* many leading ones, so the result keeps the bits of a where m has a 0)
BitAndNot(a, m) == FromBits(BitsOf(a) \ BitsOf(m))

\* a << n
ShiftLeft(a, n) == a * (2 ^ n)

\* a >> n
ShiftRight(a, n) == a \div (2 ^ n)

\* if value:
Truthy(value) == value # 0

\* x = v; F(x): the value v is computed once and bound to a local
Bind(v, F(_)) == CHOOSE y \in {F(x) : x \in {v}} : TRUE

(* ------------------------------------------------------------------ *)
(* Register codec                                                       *)
(* ------------------------------------------------------------------ *)
get_device_opcode_narrow(board_num, read_write_cmd) ==
    LET board_addr_pattern == BitAnd(ShiftLeft(board_num, 1), 6)
        rw_cmd_pattern == BitAnd(read_write_cmd, 1)
    IN  BitOr(BitOr(64, board_addr_pattern), rw_cmd_pattern)

get_device_opcode(board_num, read_write_cmd) ==
    LET board_addr_pattern == BitAnd(ShiftLeft(board_num, 1), 14)
        rw_cmd_pattern == BitAnd(read_write_cmd, 1)
    IN  BitOr(BitOr(64, board_addr_pattern), rw_cmd_pattern)

(* ------------------------------------------------------------------ *)
(* The device behind ioctl(spidev_fd, ...): eight register files, one   *)
(* per hardware address, selected by bits 3-1 of the opcode byte.       *)
(* ------------------------------------------------------------------ *)
DeviceAddressed(f) == f[1] \div 16 = 4 /\ f[2] \in Ports

DeviceBoard(f) == (f[1] \div 2) % 8

DeviceIsRead(f) == f[1] % 2 = 1

\* chips that ignore the address bits: every chip takes every write
DeviceRegs_broadcast(rg, f) ==
    IF DeviceAddressed(f) /\ ~DeviceIsRead(f) /\ f[2] # GPIOB
    THEN [b \in Boards |-> [rg[b] EXCEPT ![f[2]] = f[3]]]
    ELSE rg

\* port B holds the level of the input lines: the bus cannot change it
DeviceRegs(rg, f) ==
    IF DeviceAddressed(f) /\ ~DeviceIsRead(f) /\ f[2] # GPIOB
    THEN [rg EXCEPT ![DeviceBoard(f)][f[2]] = f[3]]
    ELSE rg

DeviceReply(rg, f) ==
    IF DeviceAddressed(f) /\ DeviceIsRead(f)
    THEN <<0, 0, rg[DeviceBoard(f)][f[2]]>>
    ELSE <<0, 0, 0>>

(* ------------------------------------------------------------------ *)
(* Transport and register access.  A machine state st is a record       *)
(* [regs, bus, err, ret]: the registers, the frames transferred so far, *)
(* the exception raised ("none" when none) and the returned value.      *)
(* fd is the module-level spidev_fd, fds the open descriptors.          *)
(* ------------------------------------------------------------------ *)
Raise(st, e) == [st EXCEPT !.err = e]

\* an exception propagates: the rest of the caller, F, is skipped
Then(r, F(_)) == Bind(r, LAMBDA x : IF x.err # "none" THEN x ELSE F(x))

Transfer(st, f) ==
    [regs |-> DeviceRegs(st.regs, f),
     bus |-> Append(st.bus, f),
     err |-> "none",
     ret |-> DeviceReply(st.regs, f)]

\* spisend without the spidev_fd == None test
spisend_unchecked(fd, fds, st, bytes_to_send) ==
    Bind(bytes_to_send, LAMBDA f :
        IF \E i \in 1 .. Len(f) : f[i] \notin Bytes THEN Raise(st, "ValueError")
        ELSE IF fd \notin fds THEN Raise(st, "OSError")
        ELSE Transfer(st, f))

\* bytes() rejects a value outside range(256); ioctl on a descriptor that
\* is not open fails with OSError (EBADF)
spisend(fd, fds, st, bytes_to_send) ==
    Bind(bytes_to_send, LAMBDA f :
        IF fd = None THEN Raise(st, "InitError")
        ELSE IF \E i \in 1 .. Len(f) : f[i] \notin Bytes THEN Raise(st, "ValueError")
        ELSE IF fd \notin fds THEN Raise(st, "OSError")
        ELSE Transfer(st, f))

\* returns (port, data): the second and third received bytes
read(fd, fds, st, port, board_num) ==
    Then(spisend(fd, fds, st, <<get_device_opcode(board_num, READ_CMD), port, 0>>),
         LAMBDA r : [r EXCEPT !.ret = <<r.ret[2], r.ret[3]>>])

write(fd, fds, st, port, data, board_num) ==
    Then(spisend(fd, fds, st, <<get_device_opcode(board_num, WRITE_CMD), port, data>>),
         LAMBDA r : [r EXCEPT !.ret = <<r.ret[2], r.ret[3]>>])

read_output(fd, fds, st, board_num) ==
    Then(read(fd, fds, st, OUTPUT_PORT, board_num),
         LAMBDA r : [r EXCEPT !.ret = r.ret[2]])

\* read_input returning the raw byte
read_input_raw(fd, fds, st, board_num) ==
    Then(read(fd, fds, st, INPUT_PORT, board_num),
         LAMBDA r : [r EXCEPT !.ret = r.ret[2]])

\* inputs are active low: data ^ 0xff
read_input(fd, fds, st, board_num) ==
    Then(read(fd, fds, st, INPUT_PORT, board_num),
         LAMBDA r : [r EXCEPT !.ret = BitXor(r.ret[2], 255)])

read_pullup(fd, fds, st, board_num) ==
    Then(read(fd, fds, st, INPUT_PULLUP, board_num),
         LAMBDA r : [r EXCEPT !.ret = r.ret[2]])

write_pullup(fd, fds, st, data, board_num) ==
    Then(write(fd, fds, st, INPUT_PULLUP, data, board_num),
         LAMBDA r : [r EXCEPT !.ret = r.ret[2]])

write_output(fd, fds, st, data, board_num) ==
    Then(write(fd, fds, st, OUTPUT_PORT, data, board_num),
         LAMBDA r : [r EXCEPT !.ret = r.ret[2]])

(* ------------------------------------------------------------------ *)
(* Pin logic                                                            *)
(* ------------------------------------------------------------------ *)
\* the range test letting pin 8 through
PinInRange_to_8(pin_number) == ~(pin_number > 8 \/ pin_number < 0)

\* the test of get_pin_bit_mask: its negation raises PinRangeError
PinInRange(pin_number) == ~(pin_number > 7 \/ pin_number < 0)

\* the value get_pin_bit_mask returns when it returns
get_pin_bit_mask(pin_number) == ShiftLeft(1, pin_number)

\* get_pin_bit_mask called on its own: raises or returns the mask
get_pin_bit_mask_call(st, pin_number) ==
    IF ~PinInRange(pin_number) THEN Raise(st, "PinRangeError")
    ELSE [st EXCEPT !.ret = get_pin_bit_mask(pin_number)]

\* the loop of get_pin_number giving up one step early
RECURSIVE get_pin_number_loop_early(_, _)
get_pin_number_loop_early(bit_pattern, pin_number) ==
    IF BitAnd(bit_pattern, 1) # 0 THEN pin_number
    ELSE Bind(ShiftRight(bit_pattern, 1), LAMBDA shifted :
         Bind(pin_number + 1, LAMBDA next :
              IF next > 6 THEN 0
              ELSE get_pin_number_loop_early(shifted, next)))

\* while (bit_pattern & 1) == 0: shift right, count, stop past pin 7
RECURSIVE get_pin_number_loop(_, _)
get_pin_number_loop(bit_pattern, pin_number) ==
    IF BitAnd(bit_pattern, 1) # 0 THEN pin_number
    ELSE Bind(ShiftRight(bit_pattern, 1), LAMBDA shifted :
         Bind(pin_number + 1, LAMBDA next :
              IF next > 7 THEN 0
              ELSE get_pin_number_loop(shifted, next)))

get_pin_number(bit_pattern) == get_pin_number_loop(bit_pattern, 0)

\* the new byte built from the mask alone, the old value forgotten
new_pin_values_forget(old_pin_values, pin_bit_mask, value) ==
    IF Truthy(value) THEN pin_bit_mask ELSE 0

new_pin_values(old_pin_values, pin_bit_mask, value) ==
    IF Truthy(value)
    THEN BitOr(old_pin_values, pin_bit_mask)
    ELSE BitAndNot(old_pin_values, pin_bit_mask)

\* digital_write that takes the old byte to be 0 instead of reading it
digital_write_no_read(fd, fds, st, pin_number, value, board_num) ==
    IF ~PinInRange(pin_number) THEN Raise(st, "PinRangeError")
    ELSE Then(write_output(fd, fds, st,
                  new_pin_values(0, get_pin_bit_mask(pin_number), value),
                  board_num), LAMBDA w :
         [w EXCEPT !.ret = NoRet])

\* digital_write looking at the pin number after reading the register
digital_write_late_check(fd, fds, st, pin_number, value, board_num) ==
    Then(read_output(fd, fds, st, board_num), LAMBDA r :
        IF ~PinInRange(pin_number) THEN Raise(r, "PinRangeError")
        ELSE Then(write_output(fd, fds, r,
                      new_pin_values(r.ret, get_pin_bit_mask(pin_number), value),
                      board_num), LAMBDA w :
             [w EXCEPT !.ret = NoRet]))

digital_write(fd, fds, st, pin_number, value, board_num) ==
    IF ~PinInRange(pin_number) THEN Raise(st, "PinRangeError")
    ELSE Then(read_output(fd, fds, st, board_num), LAMBDA r :
         Then(write_output(fd, fds, r,
                  new_pin_values(r.ret, get_pin_bit_mask(pin_number), value),
                  board_num), LAMBDA w :
         [w EXCEPT !.ret = NoRet]))

digital_read(fd, fds, st, pin_number, board_num) ==
    Then(read_input(fd, fds, st, board_num), LAMBDA r :
        IF ~PinInRange(pin_number) THEN Raise(r, "PinRangeError")
        ELSE [r EXCEPT !.ret =
                 IF BitAnd(r.ret, get_pin_bit_mask(pin_number)) # 0 THEN 1 ELSE 0])

\* digital_write_pullup writing the new byte to the output register
digital_write_pullup_out(fd, fds, st, pin_number, value, board_num) ==
    IF ~PinInRange(pin_number) THEN Raise(st, "PinRangeError")
    ELSE Then(read_pullup(fd, fds, st, board_num), LAMBDA r :
         Then(write_output(fd, fds, r,
                  new_pin_values(r.ret, get_pin_bit_mask(pin_number), value),
                  board_num), LAMBDA w :
         [w EXCEPT !.ret = NoRet]))

digital_write_pullup(fd, fds, st, pin_number, value, board_num) ==
    IF ~PinInRange(pin_number) THEN Raise(st, "PinRangeError")
    ELSE Then(read_pullup(fd, fds, st, board_num), LAMBDA r :
         Then(write_pullup(fd, fds, r,
                  new_pin_values(r.ret, get_pin_bit_mask(pin_number), value),
                  board_num), LAMBDA w :
         [w EXCEPT !.ret = NoRet]))

\* the register is read before the pin number is looked at
digital_read_pullup(fd, fds, st, pin_number, board_num) ==
    Then(read_pullup(fd, fds, st, board_num), LAMBDA r :
        IF ~PinInRange(pin_number) THEN Raise(r, "PinRangeError")
        ELSE [r EXCEPT !.ret =
                 IF BitAnd(r.ret, get_pin_bit_mask(pin_number)) # 0 THEN 1 ELSE 0])

(* ------------------------------------------------------------------ *)
(* Board bring-up and teardown                                          *)
(* ------------------------------------------------------------------ *)
\* the loop body without its last statement
init_board_no_final(fd, fds, st, board_index) ==
    Then(write(fd, fds, st, IOCON, 8, board_index), LAMBDA w1 :
    Then(write(fd, fds, w1, GPIOA, 0, board_index), LAMBDA w2 :
    Then(write(fd, fds, w2, IODIRA, 0, board_index), LAMBDA w3 :
    Then(write(fd, fds, w3, IODIRB, 255, board_index), LAMBDA w4 :
         write(fd, fds, w4, GPPUB, 255, board_index)))))

\* the body of the bring-up loop for one board: six writes in order
init_board(fd, fds, st, board_index) ==
    Then(write(fd, fds, st, IOCON, 8, board_index), LAMBDA w1 :
    Then(write(fd, fds, w1, GPIOA, 0, board_index), LAMBDA w2 :
    Then(write(fd, fds, w2, IODIRA, 0, board_index), LAMBDA w3 :
    Then(write(fd, fds, w3, IODIRB, 255, board_index), LAMBDA w4 :
    Then(write(fd, fds, w4, GPPUB, 255, board_index), LAMBDA w5 :
         write_output(fd, fds, w5, 0, board_index))))))

\* for board_index in range(8), from board_index on
RECURSIVE init_ports_from(_, _, _, _)
init_ports_from(fd, fds, st, board_index) ==
    IF board_index >= NumBoards THEN st
    ELSE Then(init_board(fd, fds, st, board_index), LAMBDA r :
              Bind(board_index + 1, LAMBDA next : init_ports_from(fd, fds, r, next)))

\* posix.open returns the lowest descriptor not in use
LowestFreeFd(fds) == CHOOSE n \in Fds : n \notin fds /\ \A m \in Fds : m < n => m \in fds

\* init() programming the ports whatever init_ports says
init_always_ports(fd, fds, st, init_ports) ==
    IF Fds \subseteq fds
    THEN [fd |-> fd, fds |-> fds, st |-> Raise(st, "OSError")]
    ELSE Bind(LowestFreeFd(fds), LAMBDA new_fd :
         Bind(fds \cup {new_fd}, LAMBDA new_fds :
              [fd |-> new_fd,
               fds |-> new_fds,
               st |-> Then(init_ports_from(new_fd, new_fds, st, 0),
                           LAMBDA r : [r EXCEPT !.ret = NoRet])]))

\* init(): open the device node, keep the descriptor, optionally program
\* the ports.  Result: [fd, fds, st].  posix.open fails (OSError) when the
\* descriptor table is full, before spidev_fd is assigned.
init(fd, fds, st, init_ports) ==
    IF Fds \subseteq fds
    THEN [fd |-> fd, fds |-> fds, st |-> Raise(st, "OSError")]
    ELSE Bind(LowestFreeFd(fds), LAMBDA new_fd :
         Bind(fds \cup {new_fd}, LAMBDA new_fds :
              [fd |-> new_fd,
               fds |-> new_fds,
               st |-> IF init_ports
                      THEN Then(init_ports_from(new_fd, new_fds, st, 0),
                                LAMBDA r : [r EXCEPT !.ret = NoRet])
                      ELSE st]))

\* deinit() leaving the descriptor open
deinit_no_close(fd, fds, st) ==
    IF fd = None THEN [fd |-> fd, fds |-> fds, st |-> Raise(st, "TypeError")]
    ELSE IF fd \notin fds THEN [fd |-> fd, fds |-> fds, st |-> Raise(st, "OSError")]
    ELSE [fd |-> fd, fds |-> fds, st |-> st]

\* deinit(): posix.close(spidev_fd); spidev_fd keeps its value.
\* posix.close(None) raises TypeError, closing a closed descriptor OSError.
deinit(fd, fds, st) ==
    IF fd = None THEN [fd |-> fd, fds |-> fds, st |-> Raise(st, "TypeError")]
    ELSE IF fd \notin fds THEN [fd |-> fd, fds |-> fds, st |-> Raise(st, "OSError")]
    ELSE [fd |-> fd, fds |-> fds \ {fd}, st |-> st]

(* ------------------------------------------------------------------ *)
(* Pin items                                                            *)
(* ------------------------------------------------------------------ *)
\* Item.__init__: handler is a property without a setter, so the
\* assignment under "if handler:" raises AttributeError
Item_init(st, pin_num, board_num, handler) ==
    IF handler # None /\ Truthy(handler) THEN Raise(st, "AttributeError")
    ELSE [st EXCEPT !.ret = [pin_num |-> pin_num, board_num |-> board_num]]

InputItem_init(st, pin_num, board_num, handler) ==
    Item_init(st, pin_num, board_num, handler)

\* self.current = 0, then Item.__init__
OutputItem_init(st, pin_num, board_num, handler) ==
    Then(Item_init(st, pin_num, board_num, handler), LAMBDA r :
         [r EXCEPT !.ret = [pin_num |-> pin_num, board_num |-> board_num,
                            current |-> 0]])

LED(st, led_number, board_num, handler) ==
    IF led_number < 0 \/ led_number > 7 THEN Raise(st, "LEDRangeError")
    ELSE OutputItem_init(st, led_number, board_num, handler)

\* a relay constructor with the range of the LEDs
Relay_as_LED(st, relay_number, board_num, handler) ==
    IF relay_number < 0 \/ relay_number > 7 THEN Raise(st, "RelayRangeError")
    ELSE OutputItem_init(st, relay_number, board_num, handler)

Relay(st, relay_number, board_num, handler) ==
    IF relay_number < 0 \/ relay_number > 1 THEN Raise(st, "RelayRangeError")
    ELSE OutputItem_init(st, relay_number, board_num, handler)

Switch(st, switch_number, board_num, handler) ==
    IF switch_number < 0 \/ switch_number > 3 THEN Raise(st, "SwitchRangeError")
    ELSE InputItem_init(st, switch_number, board_num, handler)

\* OutputItem.value setter: self.current = data, then digital_write.
\* Result: [current, st], the field and the machine state it leaves.
OutputItem_set_value(fd, fds, st, pin_num, board_num, data) ==
    [current |-> data,
     st |-> digital_write(fd, fds, st, pin_num, data, board_num)]

\* self.value = 1
OutputItem_turn_on(fd, fds, st, pin_num, board_num) ==
    OutputItem_set_value(fd, fds, st, pin_num, board_num, 1)

\* self.value = 0
OutputItem_turn_off(fd, fds, st, pin_num, board_num) ==
    OutputItem_set_value(fd, fds, st, pin_num, board_num, 0)

\* self.value = not self.value (True is 1 and False is 0)
OutputItem_toggle(fd, fds, st, cur, pin_num, board_num) ==
    OutputItem_set_value(fd, fds, st, pin_num, board_num, IF Truthy(cur) THEN 0 ELSE 1)

\* a setter that delegates to digital_write, as an output's does
InputItem_set_value_writes(fd, fds, st, pin_num, board_num, data) ==
    digital_write(fd, fds, st, pin_num, data, board_num)

\* InputItem.value setter: raises, whatever the data
InputItem_set_value(fd, fds, st, pin_num, board_num, data) ==
    Raise(st, "InputDeviceError")

(* ------------------------------------------------------------------ *)
(* State                                                                *)
(* ------------------------------------------------------------------ *)
VARIABLES
    spidev_fd,   \* the module-level descriptor, None before init
    open_fds,    \* descriptors of the device node the process holds open
    regs,        \* regs[board][port]: the registers of the eight chips
    bus,         \* frames transferred since the recording was last cleared
                 \* (cleared at the entry of every single-threaded call)
    call,        \* the most recent call and its arguments
    err,         \* the exception it raised, "none" when it returned
    ret,         \* the value it returned (NoRet when none)
    pre,         \* regs at the entry of the most recent call
    nops,        \* number of calls made
    life,        \* the most recent successful lifecycle call:
                 \* "never", "inited" or "deinited"
    pc,          \* pc[t]: position of concurrent caller t in digital_write
    loc,         \* loc[t]: its arguments and its local old_pin_values
    current,     \* current[k]: the field current of the OutputItem on pin k[1]
                 \* of board k[2]
    hist         \* what has happened to the OutputItems: [failed] a call on
                 \* one has raised, [prev] current at the entry of the most
                 \* recent call on one

vars == <<spidev_fd, open_fds, regs, bus, call, err, ret, pre, nops, life, pc, loc,
          current, hist>>

handle == <<spidev_fd, open_fds, life>>
threads == <<pc, loc>>
items == <<current, hist>>

\* the OutputItems a program holds: LED(0), LED(1) on board 0, LED(7) on board 7
Items == {<<0, 0>>, <<1, 0>>, <<7, 7>>}

\* OutputItem.__init__: self.current = 0
NewItems ==
    /\ current = [k \in Items |-> 0]
    /\ hist = [failed |-> FALSE, prev |-> [k \in Items |-> 0]]

NoCall ==
    [op |-> "none", pin |-> NoArg, value |-> NoArg, board |-> NoArg,
     port |-> NoArg, data |-> NoArg, init_ports |-> FALSE, handler |-> None]

IdleLoc == [pin |-> NoArg, value |-> NoArg, board |-> NoArg, old |-> NoRet]

\* register contents of a chip after reset, with input lines at level raw
PowerOnBoard(raw) ==
    [p \in Ports |->
        IF p \in {IODIRA, IODIRB} THEN 255
        ELSE IF p = GPIOB THEN raw
        ELSE 0]

PowerOnRegs(raw) == [b \in Boards |-> PowerOnBoard(raw)]

Entry(rg) == [regs |-> rg, bus |-> <<>>, err |-> "none", ret |-> NoRet]

\* the registers once init() has programmed the ports
AfterInitRegs == init_ports_from(FirstFd, {FirstFd}, Entry(PowerOnRegs(255)), 0).regs

Init ==
    /\ spidev_fd = None
    /\ open_fds = {}
    /\ \E raw \in RawInputs : regs = PowerOnRegs(raw)
    /\ bus = <<>>
    /\ call = NoCall
    /\ err = "none"
    /\ ret = NoRet
    /\ pre = regs
    /\ nops = 0
    /\ life = "never"
    /\ pc = [t \in Threads |-> "idle"]
    /\ loc = [t \in Threads |-> IdleLoc]
    /\ NewItems

(* ------------------------------------------------------------------ *)
(* Single-threaded calls: one action per public operation               *)
(* ------------------------------------------------------------------ *)
\* what a call that ended in machine state r leaves behind
Outcome(c, r, value) ==
    /\ regs' = r.regs
    /\ bus' = r.bus
    /\ err' = r.err
    /\ ret' = IF r.err = "none" THEN value ELSE NoRet
    /\ call' = c
    /\ pre' = regs
    /\ nops' = nops + 1
    /\ UNCHANGED threads

\* the same for a call that does not touch the OutputItems
Return(c, r, value) ==
    /\ Outcome(c, r, value)
    /\ UNCHANGED items

InitCall(init_ports) ==
    LET r == init(spidev_fd, open_fds, Entry(regs), init_ports)
    IN  /\ spidev_fd' = r.fd
        /\ open_fds' = r.fds
        /\ life' = IF r.st.err = "none" THEN "inited" ELSE life
        /\ Return([NoCall EXCEPT !.op = "init", !.init_ports = init_ports], r.st, NoRet)

DeinitCall ==
    LET r == deinit(spidev_fd, open_fds, Entry(regs))
    IN  /\ spidev_fd' = r.fd
        /\ open_fds' = r.fds
        /\ life' = IF r.st.err = "none" THEN "deinited" ELSE life
        /\ Return([NoCall EXCEPT !.op = "deinit"], r.st, NoRet)

SpiSendCall(frame) ==
    LET r == spisend(spidev_fd, open_fds, Entry(regs), frame)
    IN  /\ Return([NoCall EXCEPT !.op = "spisend", !.port = frame[2], !.data = frame[3]],
                  r, IF r.err = "none" THEN r.ret[3] ELSE NoRet)
        /\ UNCHANGED handle

ReadCall(port, board_num) ==
    LET r == read(spidev_fd, open_fds, Entry(regs), port, board_num)
    IN  /\ Return([NoCall EXCEPT !.op = "read", !.port = port, !.board = board_num],
                  r, IF r.err = "none" THEN r.ret[2] ELSE NoRet)
        /\ UNCHANGED handle

WriteCall(port, data, board_num) ==
    LET r == write(spidev_fd, open_fds, Entry(regs), port, data, board_num)
    IN  /\ Return([NoCall EXCEPT !.op = "write", !.port = port, !.data = data,
                                 !.board = board_num],
                  r, IF r.err = "none" THEN r.ret[2] ELSE NoRet)
        /\ UNCHANGED handle

ReadOutputCall(board_num) ==
    LET r == read_output(spidev_fd, open_fds, Entry(regs), board_num)
    IN  /\ Return([NoCall EXCEPT !.op = "read_output", !.board = board_num], r, r.ret)
        /\ UNCHANGED handle

ReadInputCall(board_num) ==
    LET r == read_input(spidev_fd, open_fds, Entry(regs), board_num)
    IN  /\ Return([NoCall EXCEPT !.op = "read_input", !.board = board_num], r, r.ret)
        /\ UNCHANGED handle

WriteOutputCall(data, board_num) ==
    LET r == write_output(spidev_fd, open_fds, Entry(regs), data, board_num)
    IN  /\ Return([NoCall EXCEPT !.op = "write_output", !.data = data,
                                 !.board = board_num], r, r.ret)
        /\ UNCHANGED handle

DigitalWriteCall(pin_number, value, board_num) ==
    LET r == digital_write(spidev_fd, open_fds, Entry(regs), pin_number, value, board_num)
    IN  /\ Return([NoCall EXCEPT !.op = "digital_write", !.pin = pin_number,
                                 !.value = value, !.board = board_num], r, NoRet)
        /\ UNCHANGED handle

DigitalReadCall(pin_number, board_num) ==
    LET r == digital_read(spidev_fd, open_fds, Entry(regs), pin_number, board_num)
    IN  /\ Return([NoCall EXCEPT !.op = "digital_read", !.pin = pin_number,
                                 !.board = board_num], r, r.ret)
        /\ UNCHANGED handle

InputItemSetCall(pin_num, board_num, data) ==
    LET r == InputItem_set_value(spidev_fd, open_fds, Entry(regs), pin_num, board_num, data)
    IN  /\ Return([NoCall EXCEPT !.op = "InputItem.value=", !.pin = pin_num,
                                 !.data = data, !.board = board_num], r, NoRet)
        /\ UNCHANGED handle

ReadPullupCall(board_num) ==
    LET r == read_pullup(spidev_fd, open_fds, Entry(regs), board_num)
    IN  /\ Return([NoCall EXCEPT !.op = "read_pullup", !.board = board_num], r, r.ret)
        /\ UNCHANGED handle

WritePullupCall(data, board_num) ==
    LET r == write_pullup(spidev_fd, open_fds, Entry(regs), data, board_num)
    IN  /\ Return([NoCall EXCEPT !.op = "write_pullup", !.data = data,
                                 !.board = board_num], r, r.ret)
        /\ UNCHANGED handle

DigitalWritePullupCall(pin_number, value, board_num) ==
    LET r == digital_write_pullup(spidev_fd, open_fds, Entry(regs),
                                  pin_number, value, board_num)
    IN  /\ Return([NoCall EXCEPT !.op = "digital_write_pullup", !.pin = pin_number,
                                 !.value = value, !.board = board_num], r, NoRet)
        /\ UNCHANGED handle

DigitalReadPullupCall(pin_number, board_num) ==
    LET r == digital_read_pullup(spidev_fd, open_fds, Entry(regs), pin_number, board_num)
    IN  /\ Return([NoCall EXCEPT !.op = "digital_read_pullup", !.pin = pin_number,
                                 !.board = board_num], r, r.ret)
        /\ UNCHANGED handle

GetPinBitMaskCall(pin_number) ==
    LET r == get_pin_bit_mask_call(Entry(regs), pin_number)
    IN  /\ Return([NoCall EXCEPT !.op = "get_pin_bit_mask", !.pin = pin_number], r, r.ret)
        /\ UNCHANGED handle

GetPinNumberCall(bit_pattern) ==
    /\ Return([NoCall EXCEPT !.op = "get_pin_number", !.data = bit_pattern],
              Entry(regs), get_pin_number(bit_pattern))
    /\ UNCHANGED handle

LEDCall(led_number, board_num, handler) ==
    LET r == LED(Entry(regs), led_number, board_num, handler)
    IN  /\ Return([NoCall EXCEPT !.op = "LED", !.pin = led_number, !.board = board_num,
                                 !.handler = handler], r, r.ret)
        /\ UNCHANGED handle

RelayCall(relay_number, board_num, handler) ==
    LET r == Relay(Entry(regs), relay_number, board_num, handler)
    IN  /\ Return([NoCall EXCEPT !.op = "Relay", !.pin = relay_number, !.board = board_num,
                                 !.handler = handler], r, r.ret)
        /\ UNCHANGED handle

SwitchCall(switch_number, board_num, handler) ==
    LET r == Switch(Entry(regs), switch_number, board_num, handler)
    IN  /\ Return([NoCall EXCEPT !.op = "Switch", !.pin = switch_number,
                                 !.board = board_num, !.handler = handler], r, r.ret)
        /\ UNCHANGED handle

\* what a call on the OutputItem k that ended as r leaves behind
ItemReturn(c, k, r) ==
    /\ Outcome([c EXCEPT !.pin = k[1], !.board = k[2]], r.st, NoRet)
    /\ current' = [current EXCEPT ![k] = r.current]
    /\ hist' = [failed |-> hist.failed \/ r.st.err # "none", prev |-> current]
    /\ UNCHANGED handle

OutputItemSetCall(k, data) ==
    ItemReturn([NoCall EXCEPT !.op = "OutputItem.value=", !.data = data], k,
               OutputItem_set_value(spidev_fd, open_fds, Entry(regs), k[1], k[2], data))

TurnOnCall(k) ==
    ItemReturn([NoCall EXCEPT !.op = "turn_on"], k,
               OutputItem_turn_on(spidev_fd, open_fds, Entry(regs), k[1], k[2]))

TurnOffCall(k) ==
    ItemReturn([NoCall EXCEPT !.op = "turn_off"], k,
               OutputItem_turn_off(spidev_fd, open_fds, Entry(regs), k[1], k[2]))

ToggleCall(k) ==
    ItemReturn([NoCall EXCEPT !.op = "toggle"], k,
               OutputItem_toggle(spidev_fd, open_fds, Entry(regs), current[k], k[1], k[2]))

\* a behaviour of the lifecycle specification makes at most MaxOps calls
More == nops < MaxOps

Next ==
    \/ \E init_ports \in BOOLEAN : More /\ InitCall(init_ports)
    \/ More /\ DeinitCall
    \/ \E b \in BoardInputs :
          More /\ SpiSendCall(<<get_device_opcode(b, READ_CMD), GPIOA, 0>>)
    \/ \E b \in BoardInputs : More /\ ReadCall(INPUT_PULLUP, b)
    \/ \E d \in DataInputs, b \in BoardInputs : More /\ WriteCall(INPUT_PULLUP, d, b)
    \/ \E b \in BoardInputs : More /\ ReadOutputCall(b)
    \/ \E b \in BoardInputs : More /\ ReadInputCall(b)
    \/ \E d \in DataInputs, b \in BoardInputs : More /\ WriteOutputCall(d, b)
    \/ \E p \in PinInputs, v \in ValueInputs, b \in BoardInputs :
          More /\ DigitalWriteCall(p, v, b)
    \/ \E p \in PinInputs, b \in BoardInputs : More /\ DigitalReadCall(p, b)
    \/ \E p \in PinInputs, b \in BoardInputs, d \in ValueInputs :
          More /\ InputItemSetCall(p, b, d)

Spec == Init /\ [][Next]_vars


(* ------------------------------------------------------------------ *)
(* Output-register specification: after init(), board b0's output       *)
(* register holds any byte x (as write_output(x, b0) leaves it); one    *)
(* output operation is then applied to any board.                       *)
(* ------------------------------------------------------------------ *)
Pins == 0 .. 7

\* the operation applied is the first call after the initial state
First == nops = 0

Opened(rg) ==
    /\ spidev_fd = FirstFd
    /\ open_fds = {FirstFd}
    /\ regs = rg
    /\ bus = <<>>
    /\ call = NoCall
    /\ err = "none"
    /\ ret = NoRet
    /\ pre = regs
    /\ nops = 0
    /\ life = "inited"
    /\ pc = [t \in Threads |-> "idle"]
    /\ loc = [t \in Threads |-> IdleLoc]
    /\ NewItems

InitOut == \E b0 \in Boards, x \in Bytes : Opened([AfterInitRegs EXCEPT ![b0][GPIOA] = x])

NextOut ==
    \/ \E p \in Pins, v \in ValueInputs, b \in Boards : First /\ DigitalWriteCall(p, v, b)
    \/ \E b \in Boards : First /\ ReadOutputCall(b)
    \/ \E d \in DataInputs, b \in Boards : First /\ WriteOutputCall(d, b)

SpecOut == InitOut /\ [][NextOut]_vars

(* ------------------------------------------------------------------ *)
(* Codec specification: after init(), one register read or write is     *)
(* applied to any register of any board.                                *)
(* ------------------------------------------------------------------ *)
InitCodec == Opened(AfterInitRegs)

NextCodec ==
    \/ \E p \in Ports, b \in Boards : First /\ ReadCall(p, b)
    \/ \E p \in Ports, d \in DataInputs, b \in Boards : First /\ WriteCall(p, d, b)

SpecCodec == InitCodec /\ [][NextCodec]_vars

(* ------------------------------------------------------------------ *)
(* Input-register specification: the input lines of board b0 are at     *)
(* any raw level r; one input operation is then applied to any board.   *)
(* ------------------------------------------------------------------ *)
InitIn == \E b0 \in Boards, r \in Bytes : Opened([AfterInitRegs EXCEPT ![b0][GPIOB] = r])

NextIn ==
    \/ \E p \in Pins, b \in Boards : First /\ DigitalReadCall(p, b)
    \/ \E b \in Boards : First /\ ReadInputCall(b)

SpecIn == InitIn /\ [][NextIn]_vars

(* ------------------------------------------------------------------ *)
(* Pin specification: before init(), or after init() and writes that    *)
(* left a different byte in every output and pull-up register, one      *)
(* pin-level or register-level operation is applied to any board with   *)
(* a pin number inside or outside 0..7.                                 *)
(* ------------------------------------------------------------------ *)
WidePins == -2 .. 9

\* as write_output(17 * b + 3, b) and write_pullup(255 - 9 * b, b) leave them
InUseRegs ==
    [b \in Boards |-> [AfterInitRegs[b] EXCEPT ![GPIOA] = 17 * b + 3,
                                               ![GPPUB] = 255 - 9 * b]]

InitPin == Init \/ Opened(InUseRegs)

NextPin ==
    \/ \E p \in WidePins : First /\ GetPinBitMaskCall(p)
    \/ \E p \in WidePins, v \in ValueInputs, b \in Boards :
          First /\ DigitalWriteCall(p, v, b)
    \/ \E p \in WidePins, b \in Boards : First /\ DigitalReadCall(p, b)
    \/ \E p \in WidePins, v \in ValueInputs, b \in Boards :
          First /\ DigitalWritePullupCall(p, v, b)
    \/ \E p \in WidePins, b \in Boards : First /\ DigitalReadPullupCall(p, b)
    \/ \E d \in DataInputs, b \in Boards : First /\ WriteOutputCall(d, b)
    \/ \E d \in DataInputs, b \in Boards : First /\ WritePullupCall(d, b)

SpecPin == InitPin /\ [][NextPin]_vars

(* ------------------------------------------------------------------ *)
(* Construction specification: before or after init(), one pin-item is  *)
(* constructed with an index inside or outside its range, or            *)
(* get_pin_number is applied to a byte.                                 *)
(* ------------------------------------------------------------------ *)
\* handler=None (the default) or a handler object
HandlerInputs == {None, 1}

InitNew == Init \/ Opened(InUseRegs)

NextNew ==
    \/ \E n \in WidePins, b \in BoardInputs, h \in HandlerInputs : First /\ LEDCall(n, b, h)
    \/ \E n \in WidePins, b \in BoardInputs, h \in HandlerInputs : First /\ RelayCall(n, b, h)
    \/ \E n \in WidePins, b \in BoardInputs, h \in HandlerInputs : First /\ SwitchCall(n, b, h)
    \/ \E m \in Bytes : First /\ GetPinNumberCall(m)

SpecNew == InitNew /\ [][NextNew]_vars

(* ------------------------------------------------------------------ *)
(* Pull-up specification: after init(), every pull-up register holds    *)
(* any byte x (as write_pullup(x, b) on every board leaves them); one   *)
(* pull-up operation is then applied to any board.                      *)
(* ------------------------------------------------------------------ *)
InitPullup ==
    \E x \in Bytes : Opened([b \in Boards |-> [InUseRegs[b] EXCEPT ![GPPUB] = x]])

NextPullup ==
    \/ \E p \in Pins, v \in ValueInputs, b \in Boards :
          First /\ DigitalWritePullupCall(p, v, b)
    \/ \E p \in Pins, b \in Boards : First /\ DigitalReadPullupCall(p, b)
    \/ \E b \in Boards : First /\ ReadPullupCall(b)
    \/ \E d \in DataInputs, b \in Boards : First /\ WritePullupCall(d, b)

SpecPullup == InitPullup /\ [][NextPullup]_vars

(* ------------------------------------------------------------------ *)
(* Item specification: a program holding the OutputItems of Items calls *)
(* init(), deinit() and the setters of the items, at most MaxOps times. *)
(* ------------------------------------------------------------------ *)
NextItem ==
    \/ More /\ InitCall(TRUE)
    \/ More /\ DeinitCall
    \/ \E k \in Items, d \in ValueInputs : More /\ OutputItemSetCall(k, d)
    \/ \E k \in Items : More /\ TurnOnCall(k)
    \/ \E k \in Items : More /\ TurnOffCall(k)
    \/ \E k \in Items : More /\ ToggleCall(k)

SpecItem == Init /\ [][NextItem]_vars

(* ------------------------------------------------------------------ *)
(* Race specification: NumThreads callers run digital_write without     *)
(* serialization; a caller can be preempted between the transfer that   *)
(* reads the output register and the one that writes it.  The handle is *)
(* open and every byte is in range, so no transfer raises.              *)
(* ------------------------------------------------------------------ *)
InitRace ==
    \E x \in RaceBytes :
        Opened([b \in Boards |->
                   IF b \in RaceBoards THEN [AfterInitRegs[b] EXCEPT ![GPIOA] = x]
                   ELSE AfterInitRegs[b]])

Running(rg, frames) == [regs |-> rg, bus |-> frames, err |-> "none", ret |-> NoRet]

\* entry of digital_write: the pin bit mask is computed (pin in range)
DWCall(t, pin_number, value, board_num) ==
    /\ pc[t] = "idle"
    /\ PinInRange(pin_number)
    /\ pc' = [pc EXCEPT ![t] = "read"]
    /\ loc' = [loc EXCEPT ![t] = [pin |-> pin_number, value |-> value,
                                  board |-> board_num, old |-> NoRet]]
    /\ UNCHANGED <<spidev_fd, open_fds, regs, bus, call, err, ret, pre, nops, life, items>>

\* old_pin_values = read_output(board_num)
DWRead(t) ==
    /\ pc[t] = "read"
    /\ LET r == read_output(spidev_fd, open_fds, Running(regs, bus), loc[t].board)
       IN  /\ regs' = r.regs
           /\ bus' = r.bus
           /\ loc' = [loc EXCEPT ![t].old = r.ret]
    /\ pc' = [pc EXCEPT ![t] = "write"]
    /\ UNCHANGED <<spidev_fd, open_fds, call, err, ret, pre, nops, life, items>>

\* the write-back as if the register were read again at the write
DWWrite_fresh(t) ==
    /\ pc[t] = "write"
    /\ LET w == write_output(spidev_fd, open_fds, Running(regs, bus),
                     new_pin_values(regs[loc[t].board][GPIOA],
                                    get_pin_bit_mask(loc[t].pin), loc[t].value),
                     loc[t].board)
       IN  /\ regs' = w.regs
           /\ bus' = w.bus
    /\ pc' = [pc EXCEPT ![t] = "done"]
    /\ UNCHANGED <<spidev_fd, open_fds, call, err, ret, pre, nops, life, loc, items>>

\* write_output(new_pin_values, board_num), from the value read earlier
DWWrite(t) ==
    /\ pc[t] = "write"
    /\ LET w == write_output(spidev_fd, open_fds, Running(regs, bus),
                     new_pin_values(loc[t].old,
                                    get_pin_bit_mask(loc[t].pin), loc[t].value),
                     loc[t].board)
       IN  /\ regs' = w.regs
           /\ bus' = w.bus
    /\ pc' = [pc EXCEPT ![t] = "done"]
    /\ UNCHANGED <<spidev_fd, open_fds, call, err, ret, pre, nops, life, loc, items>>

NextRace ==
    \/ \E t \in Threads, p \in RacePins, v \in {0, 1}, b \in RaceBoards : DWCall(t, p, v, b)
    \/ \E t \in Threads : DWRead(t)
    \/ \E t \in Threads : DWWrite(t)

SpecRace == InitRace /\ [][NextRace]_vars


(* ================================================================== *)
(* Properties                                                           *)
(* ================================================================== *)
Bit(x, i) == (x \div (2 ^ i)) % 2

TruthBit(value) == IF value # 0 THEN 1 ELSE 0

\* y is x with bit p set to the truthiness of v and the other bits kept
IsBitUpdate(y, x, p, v) ==
    /\ y \in Bytes
    /\ \A q \in Pins : Bit(y, q) = IF q = p THEN TruthBit(v) ELSE Bit(x, q)

RegisterOps ==
    {"spisend", "read", "write", "read_output", "read_input", "write_output",
     "digital_write", "digital_read"}

PinOps == {"digital_write", "digital_read"}

\* C1: after a digital_write(p, v, b) that completed, read_output(b)
\* returns the prior output byte of board b with bit p set when v is truthy
\* and cleared when v is falsy, the 7 other bits as they were.
C1_DigitalWriteFrame ==
    (call.op = "digital_write" /\ err = "none") =>
        LET after == read_output(spidev_fd, open_fds, Entry(regs), call.board)
        IN  /\ after.err = "none"
            /\ IsBitUpdate(after.ret, pre[call.board][GPIOA], call.pin, call.value)

C1_Witness ==
    /\ call.op = "digital_write"
    /\ err = "none"
    /\ call.board = 5
    /\ call.pin = 3
    /\ call.value = 2
    /\ pre[5][GPIOA] = 165
    /\ regs[5][GPIOA] = 173

\* C2: when two digital_write calls on different pins of the same board
\* both read the output register before either writes it, the register
\* ends as the last written byte, which is the prior byte with only one
\* of the two pins updated: the other pin's bit is the stale one.
C2_LostUpdate ==
    \A t \in Threads, u \in Threads :
        ( /\ t # u
          /\ pc[t] = "done" /\ pc[u] = "done"
          /\ \A w \in Threads \ {t, u} : pc[w] = "idle"
          /\ loc[t].board = loc[u].board
          /\ loc[t].pin # loc[u].pin
          /\ Len(bus) = 4
          /\ bus[1][1] % 2 = 1 /\ bus[2][1] % 2 = 1 ) =>
        LET b == loc[t].board
            x == pre[b][GPIOA]
            out == regs[b][GPIOA]
        IN  /\ out = bus[4][3]
            /\ \E w \in {t, u} : IsBitUpdate(out, x, loc[w].pin, loc[w].value)

\* both updates change their bit, both reads come first: one is lost
C2_Witness ==
    \E t \in Threads, u \in Threads :
        /\ t # u
        /\ pc[t] = "done" /\ pc[u] = "done"
        /\ loc[t].board = loc[u].board
        /\ loc[t].pin # loc[u].pin
        /\ Len(bus) = 4
        /\ bus[1][1] % 2 = 1 /\ bus[2][1] % 2 = 1
        /\ LET b == loc[t].board
               x == pre[b][GPIOA]
               out == regs[b][GPIOA]
           IN  /\ Bit(x, loc[t].pin) # TruthBit(loc[t].value)
               /\ Bit(x, loc[u].pin) # TruthBit(loc[u].value)
               /\ Bit(out, loc[t].pin) = TruthBit(loc[t].value)
               /\ Bit(out, loc[u].pin) # TruthBit(loc[u].value)

\* the six writes of one board, in the order of the loop body
BoardWrites ==
    << <<IOCON, 8>>, <<GPIOA, 0>>, <<IODIRA, 0>>, <<IODIRB, 255>>, <<GPPUB, 255>>,
       <<GPIOA, 0>> >>

\* bring-up as the loop issues it: six writes per board, board after board
BringUpFrames ==
    [i \in 1 .. 6 * NumBoards |->
        LET b == (i - 1) \div 6
            k == ((i - 1) % 6) + 1
        IN  <<64 + 2 * b, BoardWrites[k][1], BoardWrites[k][2]>>]

\* bring-up in two passes: five configuration writes per board, then the
\* output register of every board set to 0
TwoPassFrames ==
    [i \in 1 .. 6 * NumBoards |->
        IF i <= 5 * NumBoards
        THEN LET b == (i - 1) \div 5
                 k == ((i - 1) % 5) + 1
             IN  <<64 + 2 * b, BoardWrites[k][1], BoardWrites[k][2]>>
        ELSE <<64 + 2 * (i - 5 * NumBoards - 1), GPIOA, 0>>]

\* C3 (as amended): init(init_ports=True) issues only register writes; for
\* each board 0..7 in turn it writes config <- 8, output <- 0, direction A
\* <- 0x00, direction B <- 0xFF, pull-up B <- 0xFF and then output <- 0 as
\* the sixth write of that board; the last write of bring-up is output = 0.
C3_BringUpPerBoard ==
    (call.op = "init" /\ call.init_ports /\ err = "none") =>
        /\ bus = BringUpFrames
        /\ \A i \in 1 .. Len(bus) : bus[i][1] % 2 = 0
        /\ bus[Len(bus)] = <<78, GPIOA, 0>>

C3_Witness ==
    /\ call.op = "init"
    /\ call.init_ports
    /\ err = "none"
    /\ Len(bus) = 48
    /\ regs[7][IOCON] = 8

\* C3 as stated: the output registers are set to 0 in a final pass, after
\* the configuration of all the boards.
C3_FinalPass ==
    (call.op = "init" /\ call.init_ports /\ err = "none") => bus = TwoPassFrames

\* C4: while init() has never succeeded (spidev_fd is None), every register
\* access with a valid pin number fails with InitError, and transfers
\* nothing.
C4_InitErrorBeforeInit ==
    ( /\ spidev_fd = None
      /\ call.op \in RegisterOps
      /\ (call.op \in PinOps => call.pin \in Pins) ) =>
        /\ err = "InitError"
        /\ bus = <<>>
        /\ regs = pre

C4_Witness ==
    /\ spidev_fd = None
    /\ call.op = "digital_write"
    /\ call.pin \in Pins
    /\ err = "InitError"
    /\ bus = <<>>

\* C5: once deinit() has closed the handle init() opened, and until init()
\* is called again, every register access raises an error and transfers
\* nothing.
C5_FailsAfterDeinit ==
    (life = "deinited" /\ call.op \in RegisterOps) =>
        /\ err # "none"
        /\ bus = <<>>
        /\ regs = pre

C5_Witness ==
    /\ life = "deinited"
    /\ call.op = "read_output"
    /\ err = "OSError"
    /\ bus = <<>>

\* C6: every handle init() opened is the one stored in spidev_fd or has
\* been closed: at most one handle is open.
C6_SingleHandle ==
    /\ open_fds \subseteq {spidev_fd}
    /\ Cardinality(open_fds) <= 1

\* C7: read_input(b) returns the raw input byte with all 8 bits inverted,
\* and digital_read(p, b) returns 1 when bit p of the raw byte is 0 and 0
\* when it is 1; raw 0xFF gives 0x00 and 0 for every pin.
C7_InputInverted ==
    LET r == pre[call.board][GPIOB]
    IN  /\ (call.op = "read_input" /\ err = "none") =>
               /\ ret = 255 - r
               /\ \A q \in Pins : Bit(ret, q) = 1 - Bit(r, q)
        /\ (call.op = "digital_read" /\ err = "none") =>
               /\ ret = 1 - Bit(r, call.pin)
               /\ r = 255 => ret = 0

C7_Witness ==
    /\ call.op = "digital_read"
    /\ err = "none"
    /\ call.pin = 4
    /\ pre[call.board][GPIOB] = 239
    /\ ret = 1

\* the direction of the i-th frame of the most recent call
FrameDirection(i) ==
    IF call.op \in {"read", "read_output", "read_input"}
       \/ (call.op = "digital_write" /\ i = 1)
    THEN READ_CMD
    ELSE WRITE_CMD

\* C8: the first byte of every frame sent for board b in direction d is
\* 0x40 | ((b << 1) & 0x0E) | d: bits 7-4 are 0100, bits 3-1 are b, bit 0 is
\* 1 for a read and 0 for a write; no other (b, d) gives that opcode.
C8_Opcode ==
    /\ \A i \in 1 .. Len(bus) :
          /\ bus[i][1] = 64 + 2 * call.board + FrameDirection(i)
          /\ bus[i][1] \div 16 = 4
          /\ (bus[i][1] \div 2) % 8 = call.board
          /\ bus[i][1] % 2 = FrameDirection(i)
    /\ get_device_opcode(0, WRITE_CMD) = 64
    /\ get_device_opcode(0, READ_CMD) = 65
    /\ get_device_opcode(1, WRITE_CMD) = 66
    /\ \A i \in 1 .. Len(bus), b \in Boards, d \in {WRITE_CMD, READ_CMD} :
          get_device_opcode(b, d) = bus[i][1] => (b = call.board /\ d = FrameDirection(i))

C8_Witness ==
    /\ call.op = "read"
    /\ call.board = 5
    /\ err = "none"
    /\ bus = << <<75, call.port, 0>> >>

\* C9: init(init_ports=False) transfers nothing, so every register keeps
\* its value; when it succeeds the handle it stored is open.
C9_InitWithoutPorts ==
    (call.op = "init" /\ ~call.init_ports) =>
        /\ bus = <<>>
        /\ regs = pre
        /\ err = "none" => spidev_fd \in open_fds

C9_Witness ==
    /\ call.op = "init"
    /\ ~call.init_ports
    /\ err = "none"
    /\ regs[0][GPIOA] = 165
    /\ regs[0][IOCON] = 8

\* C10: setting the value of an input pin-item raises InputDeviceError,
\* whatever the value and whether or not init has been called, and no
\* register is read or written.
C10_InputSetRaises ==
    (call.op = "InputItem.value=") =>
        /\ err = "InputDeviceError"
        /\ bus = <<>>
        /\ regs = pre

C10_Witness ==
    /\ call.op = "InputItem.value="
    /\ spidev_fd \in open_fds
    /\ call.pin = 3
    /\ call.data = 1
    /\ err = "InputDeviceError"

PinLevelOps ==
    {"digital_write", "digital_read", "digital_write_pullup", "digital_read_pullup"}

\* C11: get_pin_bit_mask(p) returns 1 << p for p in 0..7 and raises
\* PinRangeError for every other p; each of the four pin-level operations
\* called after init() with a pin number outside 0..7 ends in PinRangeError.
C11_PinRange ==
    /\ (call.op = "get_pin_bit_mask" /\ call.pin \in Pins) =>
           (err = "none" /\ ret = 2 ^ call.pin)
    /\ (call.op = "get_pin_bit_mask" /\ call.pin \notin Pins) =>
           (err = "PinRangeError" /\ ret = NoRet)
    /\ (call.op \in PinLevelOps /\ life = "inited" /\ call.pin \notin Pins) =>
           err = "PinRangeError"

C11_Witness ==
    /\ call.op = "digital_read_pullup"
    /\ life = "inited"
    /\ call.pin = 8
    /\ err = "PinRangeError"

\* the range a constructor accepts
IndexRange(op) ==
    IF op = "LED" THEN 0 .. 7 ELSE IF op = "Relay" THEN 0 .. 1 ELSE 0 .. 3

RangeErrorOf(op) ==
    IF op = "LED" THEN "LEDRangeError"
    ELSE IF op = "Relay" THEN "RelayRangeError" ELSE "SwitchRangeError"

\* C12: LED(n) succeeds exactly when 0 <= n <= 7 and otherwise raises
\* LEDRangeError, Relay(n) exactly when 0 <= n <= 1 and otherwise raises
\* RelayRangeError, Switch(n) exactly when 0 <= n <= 3 and otherwise raises
\* SwitchRangeError (no handler passed); a construction transfers nothing.
C12_ItemRange ==
    (call.op \in {"LED", "Relay", "Switch"}) =>
        /\ bus = <<>>
        /\ regs = pre
        /\ call.handler = None =>
              IF call.pin \in IndexRange(call.op)
              THEN err = "none" /\ ret.pin_num = call.pin /\ ret.board_num = call.board
              ELSE err = RangeErrorOf(call.op)

C12_Witness ==
    /\ call.op = "Relay"
    /\ call.handler = None
    /\ call.pin = 2
    /\ err = "RelayRangeError"
    /\ spidev_fd \in open_fds

\* C13: for every byte m, get_pin_number(m) returns the position of the
\* lowest set bit of m, and 0 when m = 0 (the loop ends in both cases).
C13_LowestBit ==
    (call.op = "get_pin_number") =>
        /\ err = "none"
        /\ ret \in Pins
        /\ IF call.data = 0 THEN ret = 0
           ELSE /\ Bit(call.data, ret) = 1
                /\ \A q \in Pins : q < ret => Bit(call.data, q) = 0

C13_Witness ==
    /\ call.op = "get_pin_number"
    /\ call.data = 128
    /\ ret = 7

\* C14: a digital_write_pullup(p, v, b) that completed leaves the pull-up
\* register of board b equal to its prior byte with only bit p changed to
\* the truthiness of v, leaves the output register of board b as it was,
\* and a following digital_read_pullup(p, b) returns 1 when v is truthy
\* and 0 otherwise: the pull-up byte is not inverted.
C14_PullupWrite ==
    (call.op = "digital_write_pullup" /\ err = "none") =>
        LET after == digital_read_pullup(spidev_fd, open_fds, Entry(regs),
                                         call.pin, call.board)
        IN  /\ IsBitUpdate(regs[call.board][GPPUB], pre[call.board][GPPUB],
                           call.pin, call.value)
            /\ regs[call.board][GPIOA] = pre[call.board][GPIOA]
            /\ after.err = "none"
            /\ after.ret = TruthBit(call.value)

C14_Witness ==
    /\ call.op = "digital_write_pullup"
    /\ err = "none"
    /\ call.board = 5
    /\ call.pin = 3
    /\ call.value = 0
    /\ pre[5][GPPUB] = 173
    /\ regs[5][GPPUB] = 165
    /\ regs[5][GPIOA] = 88

ReadFrame(board_num, port) == <<65 + 2 * board_num, port, 0>>

WriteFrame(board_num, port, data) == <<64 + 2 * board_num, port, data>>

\* C15: nothing is cached.  A register read or write that completes has
\* made exactly one transfer of three bytes, and a read returns what the
\* register holds at that moment; a digital_write that completes has made
\* exactly two transfers, the read of the output register and then the
\* write of the output register of the same board; a digital_read that
\* completes has made exactly one, the read of the input register.
C15_NoCaching ==
    (err = "none") =>
        /\ call.op = "read" =>
              (bus = <<ReadFrame(call.board, call.port)>>
                  /\ ret = pre[call.board][call.port])
        /\ call.op = "read_output" =>
              (bus = <<ReadFrame(call.board, GPIOA)>> /\ ret = pre[call.board][GPIOA])
        /\ call.op = "read_input" =>
              (bus = <<ReadFrame(call.board, GPIOB)>>
                  /\ ret = 255 - pre[call.board][GPIOB])
        /\ call.op = "write" =>
              bus = <<WriteFrame(call.board, call.port, call.data)>>
        /\ call.op = "write_output" =>
              bus = <<WriteFrame(call.board, GPIOA, call.data)>>
        /\ call.op = "digital_write" =>
              bus = <<ReadFrame(call.board, GPIOA),
                      WriteFrame(call.board, GPIOA, regs[call.board][GPIOA])>>
        /\ call.op = "digital_read" =>
              bus = <<ReadFrame(call.board, GPIOB)>>

C15_Witness ==
    /\ call.op = "digital_write"
    /\ err = "none"
    /\ call.board = 7
    /\ call.pin = 3
    /\ pre[7][GPIOA] = 165
    /\ bus = <<<<79, GPIOA, 0>>, <<78, GPIOA, 173>>>>

\* C16 as stated: each of the four pin-level operations called with a pin
\* number outside 0..7 raises PinRangeError before any transfer is made
\* (taken with the handle open, where PinRangeError is what is raised).
C16_CheckedBeforeTransfer ==
    (call.op \in PinLevelOps /\ call.pin \notin Pins /\ spidev_fd \in open_fds) =>
        (err = "PinRangeError" /\ bus = <<>>)

\* C16: digital_write and digital_write_pullup look at the pin number
\* first: with a pin number outside 0..7 they raise PinRangeError and
\* transfer nothing.  digital_read and digital_read_pullup read their
\* register first: with a pin number outside 0..7 they transfer exactly
\* that one read and then raise PinRangeError, and when the read itself
\* fails (no handle yet) its error is the one raised.
C16_WritesCheckedFirst ==
    (call.op \in PinLevelOps /\ call.pin \notin Pins) =>
        /\ regs = pre
        /\ call.op \in {"digital_write", "digital_write_pullup"} =>
              (err = "PinRangeError" /\ bus = <<>>)
        /\ call.op = "digital_read" =>
              IF spidev_fd \in open_fds
              THEN err = "PinRangeError" /\ bus = <<ReadFrame(call.board, GPIOB)>>
              ELSE err = "InitError" /\ bus = <<>>
        /\ call.op = "digital_read_pullup" =>
              IF spidev_fd \in open_fds
              THEN err = "PinRangeError" /\ bus = <<ReadFrame(call.board, GPPUB)>>
              ELSE err = "InitError" /\ bus = <<>>

C16_Witness ==
    /\ call.op = "digital_read"
    /\ call.pin = -1
    /\ call.board = 4
    /\ err = "PinRangeError"
    /\ bus = <<<<73, GPIOB, 0>>>>

OutputItemOps == {"OutputItem.value=", "turn_on", "turn_off", "toggle"}

\* C17: when the digital_write made by the value setter of an OutputItem
\* (directly or through turn_on, turn_off, toggle) raises, the field
\* current of every item is what it was before the call.
C17_FailedSetKeepsCurrent ==
    (call.op \in OutputItemOps /\ err # "none") => current = hist.prev

\* the cached value of every OutputItem agrees with its output bit
Coherent ==
    \A k \in Items : Truthy(current[k]) <=> Bit(regs[k[2]][GPIOA], k[1]) = 1

\* C18: after any sequence of init() calls and of value sets, turn_on,
\* turn_off and toggle on OutputItems in which every call completed, the
\* truthiness of the field current of every item equals bit pin_num of the
\* output register of its board.
C18_CurrentMatchesRegister ==
    (life = "inited" /\ err = "none" /\ ~hist.failed) => Coherent

WriteOps == {"write_output", "write_pullup", "digital_write", "digital_write_pullup"}

\* the register a write operation is aimed at
WriteTarget(op) ==
    IF op \in {"write_output", "digital_write"} THEN OUTPUT_PORT ELSE INPUT_PULLUP

\* C19: a write operation on board b (write_output, write_pullup,
\* digital_write, digital_write_pullup) leaves every register of every
\* other board as it was, and every register of board b other than the
\* one it is aimed at.
C19_WriteIsolated ==
    (call.op \in WriteOps) =>
        \A b \in Boards, port \in Ports :
            (b # call.board \/ port # WriteTarget(call.op)) =>
                regs[b][port] = pre[b][port]

C19_Witness ==
    /\ call.op = "digital_write_pullup"
    /\ err = "none"
    /\ call.board = 5
    /\ call.pin = 1
    /\ pre[5][GPPUB] = 210
    /\ regs[5][GPPUB] = 208
    /\ regs[1][GPPUB] = 246
    /\ regs[5][GPIOA] = 88

====
